---- MODULE Spec2Model ----
(***************************************************************************)
(* Day 16 of rust-aoc-2021: the BITS packet decoder                        *)
(* (src/src/bin/day16/main.rs).  A hexadecimal text is expanded to a bit   *)
(* vector (to_bits), wrapped in a CountingIter and parsed by the recursive *)
(* Packet::parse_helper.  The recursion is modelled with an explicit stack *)
(* of activation frames; every action is one statement group of the code.  *)
(***************************************************************************)
EXTENDS Integers, Sequences, FiniteSets, TLC

(***************************************************************************)
(* Bounds of the input family.                                             *)
(***************************************************************************)
MaxRawLen == 2
MaxGroups == 17
MaxKids == 3
MaxDrop == 2
MaxExtend == 1

(***************************************************************************)
(* Bits, characters and the u64 of a literal.                              *)
(***************************************************************************)
\* enum Bit { L = 0, H }
L == 0
H == 1

None == [kind |-> "None"]
Some(v) == [kind |-> "Some", v |-> v]

Pow2(n) == IF n = 0 THEN 1 ELSE IF n = 1 THEN 2 ELSE IF n = 2 THEN 4 ELSE 8

\* Bit::from(num, bit): (num & (1 << bit)) != 0, for a nibble and bit in 0..3
Bit_from(num, bit) == IF (num \div Pow2(bit)) % 2 # 0 THEN H ELSE L

\* char::to_digit(16): the digit's value, or None
to_digit(c) ==
    CASE c = "0" -> Some(0) [] c = "1" -> Some(1) [] c = "2" -> Some(2)
      [] c = "3" -> Some(3) [] c = "4" -> Some(4) [] c = "5" -> Some(5)
      [] c = "6" -> Some(6) [] c = "7" -> Some(7) [] c = "8" -> Some(8)
      [] c = "9" -> Some(9)
      [] c \in {"a", "A"} -> Some(10) [] c \in {"b", "B"} -> Some(11)
      [] c \in {"c", "C"} -> Some(12) [] c \in {"d", "D"} -> Some(13)
      [] c \in {"e", "E"} -> Some(14) [] c \in {"f", "F"} -> Some(15)
      [] OTHER -> None

\* the white space str::trim removes, among the characters of the inputs
is_whitespace(c) == c \in {" ", "\n", "\t", "\r"}

RECURSIVE trim_start(_)
trim_start(s) ==
    IF s # <<>> /\ is_whitespace(Head(s)) THEN trim_start(Tail(s)) ELSE s

RECURSIVE trim_end(_)
trim_end(s) ==
    IF s # <<>> /\ is_whitespace(s[Len(s)])
    THEN trim_end(SubSeq(s, 1, Len(s) - 1))
    ELSE s

trim_at_end_only(s) == trim_end(s)
trim(s) == trim_end(trim_start(s))

\* the four bits of one nibble, bit 3 first
nibble_bits_low_first(nibble) ==
    << Bit_from(nibble, 0), Bit_from(nibble, 1),
       Bit_from(nibble, 2), Bit_from(nibble, 3) >>
nibble_bits(nibble) ==
    << Bit_from(nibble, 3), Bit_from(nibble, 2),
       Bit_from(nibble, 1), Bit_from(nibble, 0) >>

RECURSIVE flat_map_bits(_)
flat_map_bits(nibbles) ==
    IF nibbles = <<>> THEN <<>>
    ELSE nibble_bits(Head(nibbles)) \o flat_map_bits(Tail(nibbles))

RECURSIVE digits_of(_)
digits_of(t) ==
    IF t = <<>> THEN <<>>
    ELSE IF to_digit(Head(t)) = None THEN digits_of(Tail(t))
    ELSE << to_digit(Head(t)).v >> \o digits_of(Tail(t))

\* to_bits: None when a character of the trimmed input is no hex digit
to_bits_skipping(text) == Some(flat_map_bits(digits_of(trim(text))))
to_bits(text) ==
    \* t is the trimmed text, digits what to_digit gives for its characters
    CHOOSE out \in
      { IF \E i \in 1..Len(digits) : digits[i] = None
        THEN None
        ELSE Some(flat_map_bits([i \in 1..Len(digits) |-> digits[i].v])) :
          digits \in { [i \in 1..Len(t) |-> to_digit(t[i])] :
                        t \in { trim(text) } } } : TRUE

(***************************************************************************)
(* A u64 is kept as its 16 hexadecimal digits, most significant first, so  *)
(* that values above 2^31 stay exact.                                      *)
(***************************************************************************)
U64Digits == 16
Zero64 == [i \in 1..U64Digits |-> 0]

\* num <<= 4; num |= nibble   (the top four bits are shifted out)
ShiftInNarrow(num, nibble) ==
    [i \in 1..U64Digits |->
        IF i <= 8 THEN 0 ELSE IF i = U64Digits THEN nibble ELSE num[i + 1]]
ShiftIn_saturating(num, nibble) ==
    [i \in 1..U64Digits |->
        IF num[1] # 0 THEN 15 ELSE IF i = U64Digits THEN nibble ELSE num[i + 1]]
ShiftIn(num, nibble) ==
    [i \in 1..U64Digits |-> IF i = U64Digits THEN nibble ELSE num[i + 1]]

(***************************************************************************)
(* CountingIter over bits.into_iter().enumerate(): `processed` counts the  *)
(* calls of next, `count` is Enumerate's index of the next item.           *)
(***************************************************************************)
\* CountingIter::from
CountingIter_from == [processed |-> 0, count |-> 0]

\* CountingIter::next: the counter moves before the inner iterator is asked
CountingIter_next_zero_padded(bs, it) ==
    IF it.count < Len(bs)
    THEN [it |-> [processed |-> it.processed + 1, count |-> it.count + 1],
          item |-> Some(bs[it.count + 1])]
    ELSE [it |-> [processed |-> it.processed + 1, count |-> it.count],
          item |-> Some(L)]
CountingIter_next(bs, it) ==
    IF it.count < Len(bs)
    THEN [it |-> [processed |-> it.processed + 1, count |-> it.count + 1],
          item |-> Some(bs[it.count + 1])]
    ELSE [it |-> [processed |-> it.processed + 1, count |-> it.count],
          item |-> None]

\* Bit::as_num(bits.by_ref().map(|x| x.1).take(n)): Take asks for at most n
\* items and the for loop of as_num ends at the first None
RECURSIVE as_num_take(_, _, _, _)
as_num_take(bs, it, n, num) ==
    IF n = 0 THEN [it |-> it, num |-> num]
    ELSE \* r is what this call of next returned
         CHOOSE out \in
           { IF r.item = None
             THEN [it |-> r.it, num |-> num]
             ELSE as_num_take(bs, r.it, n - 1, num * 2 + r.item.v) :
               r \in { CountingIter_next(bs, it) } } : TRUE

as_num(bs, it, n) == as_num_take(bs, it, n, 0)

(***************************************************************************)
(* Packets.                                                                *)
(***************************************************************************)
Literal(value) == [kind |-> "Literal", value |-> value]
Operator(ty, subpackets) ==
    [kind |-> "Operator", ty |-> ty, subpackets |-> subpackets]
Packet(version, contents) == [version |-> version, contents |-> contents]

\* OperatorType::from_type_id; "panic" is the default branch
from_type_id_no_max(id) ==
    CASE id = 0 -> "Sum" [] id = 1 -> "Product" [] id = 2 -> "Min"
      [] id = 5 -> "GreaterThan" [] id = 6 -> "LessThan"
      [] id = 7 -> "Equal" [] OTHER -> "panic"
from_type_id(id) ==
    CASE id = 0 -> "Sum" [] id = 1 -> "Product" [] id = 2 -> "Min"
      [] id = 3 -> "Max" [] id = 5 -> "GreaterThan" [] id = 6 -> "LessThan"
      [] id = 7 -> "Equal" [] OTHER -> "panic"

\* OperatorType::binary_op
binary_op_never(ty) == FALSE
binary_op(ty) == ty \in {"GreaterThan", "LessThan", "Equal"}

Ok(v) == [kind |-> "Ok", v |-> v]
Err(e) == [kind |-> "Err", e |-> e]

\* packets.push(packet)
push_front(packets, packet) == << packet >> \o packets
push(packets, packet) == Append(packets, packet)

ErrInvalidHex == "invalid hex input"
ErrLiteral == "end of input reading literal"
ErrLengthType == "end of input reading length type"
ErrBinary == "binary operator does not contain exactly two supackets"
ErrEmpty == "operator has no supbackets"

\* the checks of parse_helper on an operator's sub-packets
validate_nothing(ty, subpackets) == Ok(Operator(ty, subpackets))
validate_no_empty_check(ty, subpackets) ==
    IF binary_op(ty) /\ Len(subpackets) # 2 THEN Err(ErrBinary)
    ELSE Ok(Operator(ty, subpackets))
validate_at_least_two(ty, subpackets) ==
    IF binary_op(ty) /\ Len(subpackets) < 2 THEN Err(ErrBinary)
    ELSE IF subpackets = <<>> THEN Err(ErrEmpty)
    ELSE Ok(Operator(ty, subpackets))
validate(ty, subpackets) ==
    IF binary_op(ty) /\ Len(subpackets) # 2 THEN Err(ErrBinary)
    ELSE IF subpackets = <<>> THEN Err(ErrEmpty)
    ELSE Ok(Operator(ty, subpackets))

(***************************************************************************)
(* Arithmetic on naturals of any size, written as their hex digits, least  *)
(* significant first.                                                      *)
(***************************************************************************)
RECURSIVE add_digits(_, _, _)
add_digits(a, b, carry) ==
    IF a = <<>> /\ b = <<>> THEN (IF carry = 0 THEN <<>> ELSE << carry >>)
    ELSE LET x == IF a = <<>> THEN 0 ELSE Head(a)
             y == IF b = <<>> THEN 0 ELSE Head(b)
             ta == IF a = <<>> THEN <<>> ELSE Tail(a)
             tb == IF b = <<>> THEN <<>> ELSE Tail(b)
         IN << (x + y + carry) % 16 >>
              \o add_digits(ta, tb, (x + y + carry) \div 16)

\* the sum of the products a[i] * b[j] that land on digit k
RECURSIVE column(_, _, _, _)
column(a, b, k, i) ==
    IF i > Len(a) THEN 0
    ELSE (IF k + 1 - i \in 1..Len(b) THEN a[i] * b[k + 1 - i] ELSE 0)
         + column(a, b, k, i + 1)

RECURSIVE mul_columns(_, _, _, _)
mul_columns(a, b, k, carry) ==
    IF k > Len(a) + Len(b) THEN <<>>
    ELSE LET t == column(a, b, k, 1) + carry
         IN << t % 16 >> \o mul_columns(a, b, k + 1, t \div 16)
mul_digits(a, b) == mul_columns(a, b, 1, 0)

(***************************************************************************)
(* u64 arithmetic.  `+` and `*` inside Iterator::sum and Iterator::product *)
(* inherit the overflow checks of the build: with them an overflow panics, *)
(* without them the value wraps.                                           *)
(***************************************************************************)
digits_of_u64(num) == [i \in 1..U64Digits |-> num[U64Digits + 1 - i]]
wrapping(digits) ==
    [i \in 1..U64Digits |->
        IF U64Digits + 1 - i <= Len(digits)
        THEN digits[U64Digits + 1 - i] ELSE 0]
overflows(digits) ==
    \E i \in 1..Len(digits) : i > U64Digits /\ digits[i] # 0

u64_add(a, b) == add_digits(digits_of_u64(a), digits_of_u64(b), 0)
u64_mul(a, b) == mul_digits(digits_of_u64(a), digits_of_u64(b))
u64_lt(a, b) ==
    \E i \in 1..U64Digits :
        a[i] < b[i] /\ \A j \in 1..(i - 1) : a[j] = b[j]
bool_as_u64(b) ==
    [i \in 1..U64Digits |-> IF i = U64Digits /\ b THEN 1 ELSE 0]
One64_as_zero == bool_as_u64(FALSE)
One64 == bool_as_u64(TRUE)

Panic(why) == [kind |-> "Panic", why |-> why]

\* GreaterThan, LessThan, Equal: (lhs > rhs) as u64, ...
compare_swapped(ty, lhs, rhs) ==
    bool_as_u64(CASE ty = "GreaterThan" -> u64_lt(lhs, rhs)
                  [] ty = "LessThan" -> u64_lt(rhs, lhs)
                  [] ty = "Equal" -> lhs = rhs)
compare(ty, lhs, rhs) ==
    bool_as_u64(CASE ty = "GreaterThan" -> u64_lt(rhs, lhs)
                  [] ty = "LessThan" -> u64_lt(lhs, rhs)
                  [] ty = "Equal" -> lhs = rhs)

\* ops.min() and ops.max(): None when there is no op
min_max_first(ty, ops) == IF ops = <<>> THEN None ELSE Some(ops[1])
min_max(ty, ops) ==
    IF ops = <<>> THEN None
    ELSE Some(CHOOSE v \in { ops[i] : i \in 1..Len(ops) } :
                \A i \in 1..Len(ops) :
                    IF ty = "Min" THEN ~u64_lt(ops[i], v)
                    ELSE ~u64_lt(v, ops[i]))

\* Packet::version_sum (a tree holds far fewer than 2^61 packets, so this
\* u64 sum does not overflow)
RECURSIVE version_sum_kids(_, _)
RECURSIVE version_sum_own_dropped(_)
RECURSIVE version_sum(_)
version_sum_kids_first_only(subpackets, i) ==
    IF i > 1 \/ subpackets = <<>> THEN 0 ELSE version_sum(subpackets[1])
version_sum_kids(subpackets, i) ==
    IF i > Len(subpackets) THEN 0
    ELSE version_sum(subpackets[i]) + version_sum_kids(subpackets, i + 1)
version_sum_own_dropped(p) ==
    IF p.contents.kind = "Literal" THEN p.version
    ELSE version_sum_kids(p.contents.subpackets, 1)
version_sum(p) ==
    p.version + (IF p.contents.kind = "Literal" THEN 0
                 ELSE version_sum_kids(p.contents.subpackets, 1))

\* Packet::eval: Ok(value), or Panic; `checks` says whether the build has
\* overflow checks
RECURSIVE eval(_, _)
RECURSIVE fold_ops(_, _, _, _, _)
RECURSIVE eval_all(_, _, _)

\* ops.sum() and ops.product(): the fold of + from 0 and of * from 1 over
\* the values of the children
fold_ops(ty, subpackets, i, acc, checks) ==
    IF i > Len(subpackets) THEN Ok(acc)
    ELSE LET op == eval(subpackets[i], checks)
         IN IF op.kind = "Panic" THEN op
            ELSE LET exact == IF ty = "Sum" THEN u64_add(acc, op.v)
                              ELSE u64_mul(acc, op.v)
                 IN IF checks /\ overflows(exact) THEN Panic("overflow")
                    ELSE fold_ops(ty, subpackets, i + 1, wrapping(exact),
                                  checks)

\* the values of the children from the i-th on, or the first panic
eval_all(subpackets, i, checks) ==
    IF i > Len(subpackets) THEN Ok(<<>>)
    ELSE LET op == eval(subpackets[i], checks)
         IN IF op.kind = "Panic" THEN op
            ELSE LET rest == eval_all(subpackets, i + 1, checks)
                 IN IF rest.kind = "Panic" THEN rest
                    ELSE Ok(<< op.v >> \o rest.v)

eval(p, checks) ==
    IF p.contents.kind = "Literal" THEN Ok(p.contents.value)
    ELSE LET ty == p.contents.ty
             subpackets == p.contents.subpackets
         IN CASE ty = "Sum" -> fold_ops(ty, subpackets, 1, Zero64, checks)
              [] ty = "Product" -> fold_ops(ty, subpackets, 1, One64, checks)
              [] ty \in {"Min", "Max"} ->
                   LET ops == eval_all(subpackets, 1, checks)
                   IN IF ops.kind = "Panic" THEN ops
                      ELSE IF min_max(ty, ops.v) = None
                           THEN Panic("unwrap on None")
                           ELSE Ok(min_max(ty, ops.v).v)
              [] OTHER ->
                   IF Len(subpackets) < 1 THEN Panic("index out of bounds")
                   ELSE LET lhs == eval(subpackets[1], checks)
                        IN IF lhs.kind = "Panic" THEN lhs
                           ELSE IF Len(subpackets) < 2
                                THEN Panic("index out of bounds")
                                ELSE LET rhs == eval(subpackets[2], checks)
                                     IN IF rhs.kind = "Panic" THEN rhs
                                        ELSE Ok(compare(ty, lhs.v, rhs.v))

(***************************************************************************)
(* The inputs: every hex text of at most MaxRawLen digits, the test inputs *)
(* of the source, and encodings of small packets (a literal of up to       *)
(* MaxGroups groups, an operator over up to MaxKids literals whose         *)
(* declared length or count is right or off by one, an operator inside an  *)
(* operator), each also cut short by up to MaxDrop digits.                 *)
(***************************************************************************)
HexDigits ==
    << "0", "1", "2", "3", "4", "5", "6", "7",
       "8", "9", "A", "B", "C", "D", "E", "F" >>

RECURSIVE BitsOf(_, _)
BitsOf(v, n) == IF n = 0 THEN <<>> ELSE Append(BitsOf(v \div 2, n - 1), v % 2)

\* the number that the n bits after bit `from` spell
RECURSIVE FieldAt(_, _, _)
FieldAt(bs, from, n) ==
    IF n = 0 THEN 0 ELSE 2 * FieldAt(bs, from, n - 1) + bs[from + n]

RECURSIVE HexOf(_)
HexOf(bs) ==
    IF bs = <<>> THEN <<>>
    ELSE IF Len(bs) < 4 THEN HexOf(bs \o [i \in 1..(4 - Len(bs)) |-> 0])
    ELSE << HexDigits[8 * bs[1] + 4 * bs[2] + 2 * bs[3] + bs[4] + 1] >>
         \o HexOf(SubSeq(bs, 5, Len(bs)))

RECURSIVE GroupBits(_)
GroupBits(ns) ==
    IF ns = <<>> THEN <<>>
    ELSE << IF Len(ns) = 1 THEN 0 ELSE 1 >> \o BitsOf(Head(ns), 4)
         \o GroupBits(Tail(ns))

LitBits(v, ns) == BitsOf(v, 3) \o <<1, 0, 0>> \o GroupBits(ns)

OpBits(v, id, lt, declared, body) ==
    BitsOf(v, 3) \o BitsOf(id, 3) \o <<lt>>
    \o BitsOf(declared, IF lt = L THEN 15 ELSE 11) \o body

\* k nibbles: a, a + s, a + 2s, ... (mod 16)
Nibbles(k, a, s) == [i \in 1..k |-> (a + (i - 1) * s) % 16]

RECURSIVE KidsBits(_, _)
KidsBits(n, val) ==
    IF n = 0 THEN <<>>
    ELSE KidsBits(n - 1, val) \o LitBits(n, <<(val + n) % 16>>)

OperatorIds == {0, 1, 2, 3, 5, 6, 7}

Max0(n) == IF n < 0 THEN 0 ELSE n

RawInputs ==
    UNION { [1..n -> {HexDigits[i] : i \in 1..16}] : n \in 0..MaxRawLen }

\* the inputs of tests::test_eval and tests::test_to_bits, and texts with
\* white space and characters that are no hex digits
TestInputs ==
    { << "C", "2", "0", "0", "B", "4", "0", "A", "8", "2", "\n" >>,
      << "0", "4", "0", "0", "5", "A", "C", "3", "3", "8", "9", "0" >>,
      << "8", "8", "0", "0", "8", "6", "C", "3", "E", "8", "8", "1", "1", "2" >>,
      << "C", "E", "0", "0", "C", "4", "3", "D", "8", "8", "1", "1", "2", "0" >>,
      << "D", "8", "0", "0", "5", "A", "C", "2", "A", "8", "F", "0" >>,
      << "F", "6", "0", "0", "B", "C", "2", "D", "8", "F" >>,
      << "9", "C", "0", "0", "5", "A", "C", "2", "F", "8", "F", "0" >>,
      << "9", "C", "0", "1", "4", "1", "0", "8", "0", "2", "5", "0", "3",
         "2", "0", "F", "1", "8", "0", "2", "1", "0", "4", "A", "0", "8" >>,
      << "1", "F", "3", "\n" >>,
      << " ", "d", "2", "f", "e", "2", "8", "\t" >>,
      << "D", "2", " ", "F", "E" >>,
      << "D", "2", "G", "E" >>,
      << " ", "\n" >> }

LiteralPackets ==
    { LitBits(v, Nibbles(k, a, s)) :
        v \in {6}, k \in 1..MaxGroups, a \in {0, 1, 15}, s \in {0, 3} }

OperatorPackets ==
    { OpBits(5, id, lt,
             Max0((IF lt = L THEN 11 * n ELSE n) + d), KidsBits(n, 6)) :
        id \in OperatorIds, lt \in {L, H}, n \in 0..MaxKids, d \in -1..1 }

InnerPackets ==
    { OpBits(2, id, lt, IF lt = L THEN 11 * n ELSE n, KidsBits(n, 1)) :
        id \in {1, 6}, lt \in {L, H}, n \in 0..2 }

NestedPackets ==
    { OpBits(3, id, lt,
             IF lt = L THEN Len(inner) + 11 ELSE 2,
             inner \o LitBits(7, <<9>>)) :
        id \in {0, 5}, lt \in {L, H}, inner \in InnerPackets }

Cut(text, d) == SubSeq(text, 1, Max0(Len(text) - d))

EncodedInputs ==
    { Cut(HexOf(p), d) :
        p \in LiteralPackets \cup OperatorPackets \cup NestedPackets,
        d \in 0..MaxDrop }

\* texts with white space around or inside, lower case digits, and
\* characters that are no hex digits, before and after the end of the packet
TextInputs ==
    { << "D", "2", "F", "E", "2", "8", "G" >>,
      << "D", "2", "F", "E", "2", "8", " ", "0" >>,
      << "d", "2", "F", "e", "2", "8" >>,
      << "\t", "c", "2", "0", "0", "b", "4", "0", "a", "8", "2", " ", "\r" >>,
      << "G" >>,
      << "\n", "x", "D", "1" >>,
      << "A", "2", "0", "0", "4", "C", "3", "-" >> }

\* operators over literals in any order of size, of one digit and of many,
\* up to sums and products around 2^64
RECURSIVE LitsBits(_, _)
LitsBits(vals, v) ==
    IF vals = <<>> THEN <<>>
    ELSE LitBits(v, Head(vals)) \o LitsBits(Tail(vals), (v + 1) % 8)

Repeat(d, k) == [i \in 1..k |-> d]

ValueLists ==
    { << <<8>>, <<3>>, <<12>> >>,
      << <<12>>, <<8>>, <<3>> >>,
      << <<5>>, <<5>> >>,
      << <<9>>, <<4>> >>,
      << <<1, 0>>, <<0, 15>> >>,
      << <<2, 15>>, <<3, 0>> >>,
      << <<1>> \o Repeat(0, 7), <<1>> \o Repeat(0, 7) >>,
      << <<1>> \o Repeat(0, 8), <<1>> \o Repeat(0, 8) >>,
      << <<7>> \o Repeat(15, 15), <<7>> \o Repeat(15, 15) >>,
      << <<8>> \o Repeat(0, 15), <<8>> \o Repeat(0, 15) >>,
      << Repeat(15, 16), Repeat(15, 16) >> }

ArithPackets ==
    { OpBits(3, id, lt,
             IF lt = L THEN Len(LitsBits(vals, 1)) ELSE Len(vals),
             LitsBits(vals, 1)) :
        id \in OperatorIds, lt \in {L, H}, vals \in ValueLists }

ArithInputs == { HexOf(p) : p \in ArithPackets }

\* the reference texts for the sum of versions, and the bits of
\* tests::test_parse_bits as hex digits
VersionInputs ==
    { << "8", "A", "0", "0", "4", "A", "8", "0", "1", "A", "8", "0", "0",
         "2", "F", "4", "7", "8" >>,
      << "6", "2", "0", "0", "8", "0", "0", "0", "1", "6", "1", "1", "5",
         "6", "2", "C", "8", "8", "0", "2", "1", "1", "8", "E", "3", "4" >>,
      << "C", "0", "0", "1", "5", "0", "0", "0", "0", "1", "6", "1", "1",
         "5", "A", "2", "E", "0", "8", "0", "2", "F", "1", "8", "2", "3",
         "4", "0" >>,
      << "A", "0", "0", "1", "6", "C", "8", "8", "0", "1", "6", "2", "0",
         "1", "7", "C", "3", "6", "8", "6", "B", "1", "8", "A", "3", "D",
         "4", "7", "8", "0" >>,
      << "E", "E", "0", "0", "D", "4", "0", "C", "8", "2", "3", "0", "6",
         "0" >> }

Inputs ==
    RawInputs \cup TestInputs \cup TextInputs \cup EncodedInputs
    \cup ArithInputs \cup VersionInputs

ExtendDigits == {"0", "8", "F"}

\* the white space put before and after a text
Pads ==
    { << << " " >>, <<>> >>,
      << <<>>, << "\n" >> >>,
      << << "\n", "\t" >>, << "\r", " " >> >> }

\* a text with its letters in lower or in upper case
UpperLetters == << "A", "B", "C", "D", "E", "F", "G", "X" >>
LowerLetters == << "a", "b", "c", "d", "e", "f", "g", "x" >>
recase(text, to) ==
    LET from == IF to = "lower" THEN UpperLetters ELSE LowerLetters
        into == IF to = "lower" THEN LowerLetters ELSE UpperLetters
    IN [i \in 1..Len(text) |->
          IF \E k \in 1..Len(from) : text[i] = from[k]
          THEN into[CHOOSE k \in 1..Len(from) : text[i] = from[k]]
          ELSE text[i]]

(***************************************************************************)
(* State.                                                                  *)
(***************************************************************************)
VARIABLES
    input,      \* the text handed to Packet::parse
    pc,         \* "parse", "helper" (inside parse_helper) or "done"
    bits,       \* the Vec<Bit> of to_bits
    iter,       \* the CountingIter: processed, and Enumerate's count
    stack,      \* the activations of parse_helper, innermost last
    ret,        \* the value an activation has just returned, or None
    result,     \* what Packet::parse returned, or None
    previous,   \* what Packet::parse returned for the text this one was made of
    extended,   \* the number of digits appended to the first text
    variant,    \* how the text was made: "first", or the name of the rewriting
    report      \* what main printed for the result, or None

vars ==
    << input, pc, bits, iter, stack, ret, result, previous, extended,
       variant, report >>

\* the locals of one activation of parse_helper
Frame ==
    [ at |-> "version", start_idx |-> 0, version |-> 0, type_id |-> 0,
      num |-> Zero64, length_type_id |-> L, total_length |-> 0,
      parsed_bits |-> 0, num_subpackets |-> 0, i |-> 0, packets |-> <<>>,
      contents |-> None ]

Top == stack[Len(stack)]
Callers == SubSeq(stack, 1, Len(stack) - 1)
InHelper(at) == pc = "helper" /\ ret = None /\ stack # <<>> /\ Top.at = at
Goto(f) == stack' = Append(Callers, f)

Init ==
    /\ input \in Inputs
    /\ pc = "parse"
    /\ bits = <<>>
    /\ iter = CountingIter_from
    /\ stack = <<>>
    /\ ret = None
    /\ result = None
    /\ previous = None
    /\ extended = 0
    /\ variant = "first"
    /\ report = None

(***************************************************************************)
(* Packet::parse and Packet::parse_bits up to the call of parse_helper.    *)
(***************************************************************************)
Parse ==
    /\ pc = "parse"
    /\ LET b == to_bits(input)
       IN IF b = None
          THEN /\ result' = Err(ErrInvalidHex)
               /\ pc' = "done"
               /\ UNCHANGED << bits, iter, stack >>
          ELSE /\ bits' = b.v
               /\ iter' = CountingIter_from
               /\ stack' = << Frame >>
               /\ pc' = "helper"
               /\ UNCHANGED result
    /\ UNCHANGED << input, ret, previous, extended,
                    variant, report >>

(***************************************************************************)
(* parse_helper.                                                           *)
(***************************************************************************)
\* let start_idx = bits.processed; let version = ...take(3)
ReadVersion ==
    /\ InHelper("version")
    /\ LET r == as_num(bits, iter, 3)
       IN /\ iter' = r.it
          /\ Goto([Top EXCEPT !.start_idx = iter.processed,
                              !.version = r.num, !.at = "type_id"])
    /\ UNCHANGED << input, pc, bits, ret, result, previous, extended,
                    variant, report >>

\* let type_id = ...take(3); match type_id
ReadTypeId ==
    /\ InHelper("type_id")
    /\ LET r == as_num(bits, iter, 3)
       IN /\ iter' = r.it
          /\ Goto([Top EXCEPT !.type_id = r.num,
                     !.at = IF r.num = 4 THEN "literal" ELSE "length_type"])
    /\ UNCHANGED << input, pc, bits, ret, result, previous, extended,
                    variant, report >>

\* one turn of the loop of the literal branch
LiteralGroup_rereading ==
    /\ InHelper("literal")
    /\ LET c == CountingIter_next(bits, iter)
       IN IF c.item = None
          THEN /\ iter' = c.it
               /\ ret' = Err(ErrLiteral)
               /\ stack' = Callers
          ELSE LET last_group == c.item.v = L
                   r == as_num(bits, c.it, 4)
                   num == ShiftIn(Top.num, r.num)
               IN /\ iter' = IF last_group THEN r.it ELSE iter
                  /\ ret' = None
                  /\ Goto([Top EXCEPT !.num = num,
                             !.contents = IF last_group THEN Literal(num)
                                          ELSE None,
                             !.at = IF last_group THEN "return"
                                    ELSE "literal"])
    /\ UNCHANGED << input, pc, bits, result, previous, extended,
                    variant, report >>
LiteralGroup ==
    /\ InHelper("literal")
    /\ LET c == CountingIter_next(bits, iter)
       IN IF c.item = None
          THEN /\ iter' = c.it
               /\ ret' = Err(ErrLiteral)
               /\ stack' = Callers
          ELSE LET last_group == c.item.v = L
                   r == as_num(bits, c.it, 4)
                   num == ShiftIn(Top.num, r.num)
               IN /\ iter' = r.it
                  /\ ret' = None
                  /\ Goto([Top EXCEPT !.num = num,
                             !.contents = IF last_group THEN Literal(num)
                                          ELSE None,
                             !.at = IF last_group THEN "return"
                                    ELSE "literal"])
    /\ UNCHANGED << input, pc, bits, result, previous, extended,
                    variant, report >>

\* let (_, length_type_id) = bits.next().ok_or(..)?; match length_type_id
ReadLengthType ==
    /\ InHelper("length_type")
    /\ LET c == CountingIter_next(bits, iter)
       IN /\ iter' = c.it
          /\ IF c.item = None
             THEN /\ ret' = Err(ErrLengthType)
                  /\ stack' = Callers
             ELSE /\ ret' = None
                  /\ Goto([Top EXCEPT !.length_type_id = c.item.v,
                             !.at = IF c.item.v = L THEN "total_length"
                                    ELSE "num_subpackets"])
    /\ UNCHANGED << input, pc, bits, result, previous, extended,
                    variant, report >>

\* let total_length = ...take(15); parsed_bits = 0; packets = Vec::new()
ReadTotalLength ==
    /\ InHelper("total_length")
    /\ LET r == as_num(bits, iter, 15)
       IN /\ iter' = r.it
          /\ Goto([Top EXCEPT !.total_length = r.num, !.parsed_bits = 0,
                              !.packets = <<>>, !.at = "total_loop"])
    /\ UNCHANGED << input, pc, bits, ret, result, previous, extended,
                    variant, report >>

\* while parsed_bits < total_length { Self::parse_helper(bits.by_ref()) ..
TotalLoop_inclusive ==
    /\ InHelper("total_loop")
    /\ IF Top.parsed_bits <= Top.total_length
       THEN stack' = Append(Callers, [Top EXCEPT !.at = "total_call"])
                     \o << Frame >>
       ELSE Goto([Top EXCEPT !.at = "validate"])
    /\ UNCHANGED << input, pc, bits, iter, ret, result, previous, extended,
                    variant, report >>
TotalLoop ==
    /\ InHelper("total_loop")
    /\ IF Top.parsed_bits < Top.total_length
       THEN stack' = Append(Callers, [Top EXCEPT !.at = "total_call"])
                     \o << Frame >>
       ELSE Goto([Top EXCEPT !.at = "validate"])
    /\ UNCHANGED << input, pc, bits, iter, ret, result, previous, extended,
                    variant, report >>

\* let (parsed, packet) = ..?; parsed_bits += parsed; packets.push(packet)
TotalReturn ==
    /\ pc = "helper" /\ stack # <<>> /\ Top.at = "total_call" /\ ret # None
    /\ IF ret.kind = "Err"
       THEN /\ stack' = Callers
            /\ UNCHANGED ret
       ELSE /\ Goto([Top EXCEPT !.parsed_bits = @ + ret.v.parsed,
                                !.packets = push(@, ret.v.packet),
                                !.at = "total_loop"])
            /\ ret' = None
    /\ UNCHANGED << input, pc, bits, iter, result, previous, extended,
                    variant, report >>

\* let num_subpackets = ...take(11); packets = Vec::with_capacity(..)
ReadNumSubpackets ==
    /\ InHelper("num_subpackets")
    /\ LET r == as_num(bits, iter, 11)
       IN /\ iter' = r.it
          /\ Goto([Top EXCEPT !.num_subpackets = r.num, !.i = 0,
                              !.packets = <<>>, !.at = "count_loop"])
    /\ UNCHANGED << input, pc, bits, ret, result, previous, extended,
                    variant, report >>

\* for _ in 0..num_subpackets { Self::parse_helper(bits.by_ref()) ..
CountLoop_checking_arity_first ==
    /\ InHelper("count_loop")
    /\ IF /\ Top.i < Top.num_subpackets
          /\ ~(binary_op(from_type_id(Top.type_id)) /\ Top.num_subpackets # 2)
       THEN stack' = Append(Callers, [Top EXCEPT !.i = @ + 1,
                                                 !.at = "count_call"])
                     \o << Frame >>
       ELSE Goto([Top EXCEPT !.at = "validate"])
    /\ UNCHANGED << input, pc, bits, iter, ret, result, previous, extended,
                    variant, report >>
CountLoop ==
    /\ InHelper("count_loop")
    /\ IF Top.i < Top.num_subpackets
       THEN stack' = Append(Callers, [Top EXCEPT !.i = @ + 1,
                                                 !.at = "count_call"])
                     \o << Frame >>
       ELSE Goto([Top EXCEPT !.at = "validate"])
    /\ UNCHANGED << input, pc, bits, iter, ret, result, previous, extended,
                    variant, report >>

\* packets.push(Self::parse_helper(bits.by_ref())?.1)
CountReturn_keeping_the_rest ==
    /\ pc = "helper" /\ stack # <<>> /\ Top.at = "count_call" /\ ret # None
    /\ IF ret.kind = "Err"
       THEN Goto([Top EXCEPT !.at = "validate"])
       ELSE Goto([Top EXCEPT !.packets = push(@, ret.v.packet),
                             !.at = "count_loop"])
    /\ ret' = None
    /\ UNCHANGED << input, pc, bits, iter, result, previous, extended,
                    variant, report >>
CountReturn ==
    /\ pc = "helper" /\ stack # <<>> /\ Top.at = "count_call" /\ ret # None
    /\ IF ret.kind = "Err"
       THEN /\ stack' = Callers
            /\ UNCHANGED ret
       ELSE /\ Goto([Top EXCEPT !.packets = push(@, ret.v.packet),
                                !.at = "count_loop"])
            /\ ret' = None
    /\ UNCHANGED << input, pc, bits, iter, result, previous, extended,
                    variant, report >>

\* from_type_id, the two checks, PacketContents::Operator { ty, subpackets }
Validate ==
    /\ InHelper("validate")
    /\ LET v == validate(from_type_id(Top.type_id), Top.packets)
       IN IF v.kind = "Err"
          THEN /\ ret' = v
               /\ stack' = Callers
          ELSE /\ ret' = None
               /\ Goto([Top EXCEPT !.contents = v.v, !.at = "return"])
    /\ UNCHANGED << input, pc, bits, iter, result, previous, extended,
                    variant, report >>

\* Ok((bits.processed - start_idx, Packet { version, contents }))
Return ==
    /\ InHelper("return")
    /\ ret' = Ok([parsed |-> iter.processed - Top.start_idx,
                  packet |-> Packet(Top.version, Top.contents)])
    /\ stack' = Callers
    /\ UNCHANGED << input, pc, bits, iter, result, previous, extended,
                    variant, report >>

\* parse_bits: let (_, packet) = Self::parse_helper(..)?; Ok(packet)
ParseBitsReturn ==
    /\ pc = "helper" /\ stack = <<>> /\ ret # None
    /\ result' = IF ret.kind = "Err" THEN ret ELSE Ok(ret.v.packet)
    /\ pc' = "done"
    /\ UNCHANGED << input, bits, iter, stack, ret, previous, extended,
                    variant, report >>

(***************************************************************************)
(* The caller decodes the same text with one more hex digit after it.      *)
(***************************************************************************)
\* Packet::parse is called again, with `text`
Again(text, how) ==
    /\ pc = "done"
    /\ input' = text
    /\ previous' = result
    /\ variant' = how
    /\ pc' = "parse"
    /\ bits' = <<>>
    /\ iter' = CountingIter_from
    /\ stack' = <<>>
    /\ ret' = None
    /\ result' = None
    /\ report' = None

Extend ==
    /\ variant \in {"first", "extended"}
    /\ extended < MaxExtend
    /\ \A i \in 1..Len(input) : to_digit(input[i]) # None
    /\ \E d \in ExtendDigits : Again(Append(input, d), "extended")
    /\ extended' = extended + 1

(***************************************************************************)
(* The caller decodes the same text with white space around it, or with    *)
(* its letters in the other case.                                          *)
(***************************************************************************)
Pad ==
    /\ variant = "first"
    /\ \E w \in Pads : Again(w[1] \o input \o w[2], "padded")
    /\ UNCHANGED extended

Recase ==
    /\ variant = "first"
    /\ \E to \in {"lower", "upper"} :
          /\ recase(input, to) # input
          /\ Again(recase(input, to), "recased")
    /\ UNCHANGED extended

(***************************************************************************)
(* The caller decodes the other framing of an operator that was decoded    *)
(* from a complete stream: the same version, type id and children's bits,  *)
(* with the length in bits of the children in place of their number, or    *)
(* their number in place of their length.                                  *)
(***************************************************************************)
Reframe ==
    /\ variant = "first"
    /\ result.kind = "Ok"
    /\ result.v.contents.kind = "Operator"
    /\ iter.processed = iter.count
    /\ LET header == IF bits[7] = L THEN 22 ELSE 18
           kids == SubSeq(bits, header + 1, iter.count)
       IN /\ bits[7] = L => FieldAt(bits, 7, 15) = Len(kids)
          /\ Again(HexOf(OpBits(FieldAt(bits, 0, 3), FieldAt(bits, 3, 3),
                                IF bits[7] = L THEN H ELSE L,
                                IF bits[7] = L
                                THEN Len(result.v.contents.subpackets)
                                ELSE Len(kids),
                                kids)),
                   "reframed")
    /\ UNCHANGED extended

(***************************************************************************)
(* main: the version sum and the value of the packet that was parsed.      *)
(***************************************************************************)
Evaluate ==
    /\ pc = "done"
    /\ result.kind = "Ok"
    /\ report = None
    /\ \E checks \in BOOLEAN :
          report' = [version_sum |-> version_sum(result.v),
                     eval |-> eval(result.v, checks)]
    /\ UNCHANGED << input, pc, bits, iter, stack, ret, result, previous,
                    extended, variant >>

Next ==
    \/ Parse
    \/ ReadVersion
    \/ ReadTypeId
    \/ LiteralGroup
    \/ ReadLengthType
    \/ ReadTotalLength
    \/ TotalLoop
    \/ TotalReturn
    \/ ReadNumSubpackets
    \/ CountLoop
    \/ CountReturn
    \/ Validate
    \/ Return
    \/ ParseBitsReturn
    \/ Extend
    \/ Pad
    \/ Recase
    \/ Reframe
    \/ Evaluate

Spec == Init /\ [][Next]_vars

\* Packet::parse runs in one thread from its call to its return: a decode
\* that can take a step takes it
Step ==
    \/ Parse
    \/ ReadVersion
    \/ ReadTypeId
    \/ LiteralGroup
    \/ ReadLengthType
    \/ ReadTotalLength
    \/ TotalLoop
    \/ TotalReturn
    \/ ReadNumSubpackets
    \/ CountLoop
    \/ CountReturn
    \/ Validate
    \/ Return
    \/ ParseBitsReturn

\* the decodes whose end is checked: the texts of the tests, the reference
\* texts, and the literals, the operators over operators and the operators
\* over large literals, whole and cut short
LiveInputs ==
    TestInputs \cup TextInputs \cup ArithInputs \cup VersionInputs
    \cup { Cut(HexOf(p), d) :
             p \in LiteralPackets \cup NestedPackets, d \in 0..MaxDrop }

LiveInit == Init /\ input \in LiveInputs

LiveSpec == LiveInit /\ [][Next]_vars /\ WF_vars(Step)

(***************************************************************************)
(* The layout of the bit stream as the protocol defines it, read straight  *)
(* from the bits of a decode: what the claims compare the decoder with.    *)
(***************************************************************************)
Decoded == pc = "done" /\ to_bits(input) # None
EndOfInput(r) == r.kind = "Err" /\ r.e \in {ErrLiteral, ErrLengthType}

TopTypeId == FieldAt(bits, 3, 3)
TopIsOperator == Len(bits) >= 7 /\ TopTypeId # 4
TopTotalLength == FieldAt(bits, 7, 15)
TopCount == FieldAt(bits, 7, 11)
TopFramedByLength == TopIsOperator /\ bits[7] = L /\ Len(bits) >= 22
TopFramedByCount == TopIsOperator /\ bits[7] = H /\ Len(bits) >= 18

\* the k-th group of a top-level literal starts after bit GroupAt(k)
GroupAt(k) == 6 + 5 * (k - 1)
\* groups 1..k-1 are whole and say "more"
TopLiteralMore(k) ==
    /\ Len(bits) >= 6
    /\ TopTypeId = 4
    /\ \A j \in 1..(k - 1) :
          Len(bits) >= GroupAt(j + 1) /\ bits[GroupAt(j) + 1] = 1
\* the stream holds a top-level literal of exactly k groups
TopLiteral(k) ==
    /\ TopLiteralMore(k)
    /\ Len(bits) >= GroupAt(k + 1)
    /\ bits[GroupAt(k) + 1] = 0
TopNibble(j) == FieldAt(bits, GroupAt(j) + 1, 4)

(***************************************************************************)
(* Claims.                                                                 *)
(***************************************************************************)
\* C1: an operator framed by total_length that parses successfully has
\* children whose bits_consumed add up to total_length exactly (a child
\* that overruns the boundary is an error).  Stated for the decodes in
\* which every bit asked for so far was there.
C1_ExactTotalLength ==
    \A d \in 1..Len(stack) :
        ( /\ stack[d].at = "return"
          /\ stack[d].contents.kind = "Operator"
          /\ stack[d].length_type_id = L
          /\ iter.processed = iter.count )
        => stack[d].parsed_bits = stack[d].total_length

\* C2: when the stream ends inside a group of a literal (its continuation
\* bit is there, fewer than 4 value bits follow) the decode fails with an
\* end-of-input error and returns no Literal.
C2_CutLiteralFails ==
    \A k \in 1..(MaxGroups + 1) :
        ( /\ Decoded
          /\ TopLiteralMore(k)
          /\ Len(bits) > GroupAt(k)
          /\ Len(bits) < GroupAt(k + 1) )
        => EndOfInput(result)

\* C3: when the stream ends inside a header field of a packet (version,
\* type id, length type, total length, sub-packet count) the decode fails
\* with an end-of-input error.
C3_CutHeaderFails ==
    ( /\ Decoded
      /\ \/ Len(bits) < 6
         \/ Len(bits) = 6 /\ TopTypeId # 4
         \/ TopIsOperator /\ bits[7] = L /\ Len(bits) < 22
         \/ TopIsOperator /\ bits[7] = H /\ Len(bits) < 18 )
    => EndOfInput(result)

\* C4: an operator that declares more bits (total_length) or more
\* sub-packets (each takes at least 11 bits) than follow it in the stream
\* makes the decode fail (with an end-of-input or framing error): the
\* decode never succeeds on such an input.
C4_TruncatedOperatorFails ==
    ( /\ Decoded
      /\ \/ TopFramedByLength /\ TopTotalLength > Len(bits) - 22
         \/ TopFramedByCount /\ 11 * TopCount > Len(bits) - 18 )
    => result.kind = "Err"

RECURSIVE WellFormed(_)
WellFormed(p) ==
    \/ p.contents.kind = "Literal"
    \/ /\ p.contents.kind = "Operator"
       /\ Len(p.contents.subpackets) >= 1
       /\ p.contents.ty \in {"GreaterThan", "LessThan", "Equal"}
            => Len(p.contents.subpackets) = 2
       /\ \A c \in 1..Len(p.contents.subpackets) :
            WellFormed(p.contents.subpackets[c])

\* C5: every tree a successful decode returns is well formed at every
\* depth: an operator has at least one child, a GreaterThan, LessThan or
\* Equal exactly two.
C5_WellFormedTree ==
    (pc = "done" /\ result.kind = "Ok") => WellFormed(result.v)

C5_Witness ==
    /\ pc = "done"
    /\ result.kind = "Ok"
    /\ result.v.contents.kind = "Operator"
    /\ \E c \in 1..Len(result.v.contents.subpackets) :
          LET q == result.v.contents.subpackets[c].contents
          IN q.kind = "Operator" /\ q.ty = "LessThan"
             /\ Len(q.subpackets) = 2

\* an error a parse_helper activation returned reaches the caller of
\* Packet::parse unchanged
ErrorPropagates ==
    (pc = "helper" /\ ret.kind = "Err")
    => (ret' = ret /\ (pc' = "done" => result' = ret))

\* C6 as stated: an operator of any kind that ends up with no children
\* makes the decode fail with the EmptyOperator error.
C6_EmptyOperatorError ==
    [][ /\ (InHelper("validate") /\ Top.packets = <<>>)
           => ret' = Err(ErrEmpty)
        /\ ErrorPropagates ]_vars

\* C6 as amended: an operator that ends up with no children makes the
\* decode fail, with the EmptyOperator error when it is a Sum, Product, Min
\* or Max and with the BinaryOperatorArityMismatch error when it is a
\* GreaterThan, LessThan or Equal.
C6_EmptyOperatorFails ==
    [][ /\ (InHelper("validate") /\ Top.packets = <<>>)
           => ret' = Err(IF Top.type_id \in {5, 6, 7} THEN ErrBinary
                         ELSE ErrEmpty)
        /\ ErrorPropagates ]_vars

C6_Witness ==
    /\ pc = "done"
    /\ result = Err(ErrEmpty)
    /\ TopFramedByCount
    /\ TopCount = 0

\* C7: a GreaterThan, LessThan or Equal whose children all parsed and are
\* not exactly two makes the decode fail with the
\* BinaryOperatorArityMismatch error.
C7_BinaryArityError ==
    [][ /\ ( /\ InHelper("validate")
             /\ Top.type_id \in {5, 6, 7}
             /\ Len(Top.packets) # 2 )
           => ret' = Err(ErrBinary)
        /\ ErrorPropagates ]_vars

C7_Witness ==
    /\ pc = "done"
    /\ result = Err(ErrBinary)
    /\ TopFramedByCount
    /\ TopCount = 3
    /\ Len(bits) >= 18 + 3 * 11

\* the low 16 hex digits of the integer the k groups encode
TopLiteralValue(k) ==
    [i \in 1..U64Digits |->
        IF k - U64Digits + i >= 1 THEN TopNibble(k - U64Digits + i) ELSE 0]
TopLiteralFits(k) == \A j \in 1..(k - U64Digits) : TopNibble(j) = 0

\* C8: a literal of k groups, the first k-1 with continuation bit 1 and the
\* k-th with 0, decodes to the integer its k nibbles spell, most significant
\* first, whenever that integer fits in 64 bits; reading stops with the
\* k-th group.
C8_LiteralValue ==
    \A k \in 1..(MaxGroups + 1) :
        (Decoded /\ TopLiteral(k) /\ TopLiteralFits(k))
        => /\ result = Ok(Packet(FieldAt(bits, 0, 3),
                                 Literal(TopLiteralValue(k))))
           /\ iter.count = GroupAt(k + 1)

\* a literal of 9 groups or more whose value is above 2^32
C8_Witness ==
    \E k \in 9..MaxGroups :
        /\ Decoded
        /\ TopLiteral(k)
        /\ TopLiteralFits(k)
        /\ TopNibble(Max0(k - U64Digits) + 1) # 0
        /\ result.kind = "Ok"

\* C9: when the decode of a text succeeds, the decode of the text followed
\* by more hex digits succeeds with the same tree.
C9_TrailingDigitsIgnored ==
    (pc = "done" /\ variant = "extended" /\ previous.kind = "Ok")
    => result = previous

\* C10: the reader's consumed-bit count is the number of bits delivered so
\* far, and never exceeds the length of the bit stream.
C10_ConsumedIsDelivered ==
    iter.processed = iter.count /\ iter.processed <= Len(bits)

\* the j-th child of a top-level operator framed by count, when all the
\* children before it are literals of one group, starts after bit KidAt(j)
KidAt(j) == 18 + 11 * (j - 1)
TopKidsAreSmallLiterals ==
    /\ TopFramedByCount
    /\ Len(bits) >= KidAt(TopCount + 1)
    /\ \A j \in 1..TopCount :
          FieldAt(bits, KidAt(j) + 3, 3) = 4 /\ bits[KidAt(j) + 7] = 0
TopKid(j) ==
    Packet(FieldAt(bits, KidAt(j), 3),
           Literal([i \in 1..U64Digits |->
                      IF i = U64Digits THEN FieldAt(bits, KidAt(j) + 7, 4)
                      ELSE 0]))

\* C11: an operator framed by count that parses successfully has exactly
\* subpacket_count children, and they are in the order of their bits in the
\* stream.
C11_CountFramedChildren ==
    /\ \A d \in 1..Len(stack) :
          ( /\ stack[d].at = "return"
            /\ stack[d].contents.kind = "Operator"
            /\ stack[d].length_type_id = H )
          => Len(stack[d].contents.subpackets) = stack[d].num_subpackets
    /\ (Decoded /\ result.kind = "Ok" /\ TopKidsAreSmallLiterals)
       => /\ Len(result.v.contents.subpackets) = TopCount
          /\ \A j \in 1..TopCount :
                result.v.contents.subpackets[j] = TopKid(j)

C11_Witness ==
    /\ Decoded
    /\ result.kind = "Ok"
    /\ TopKidsAreSmallLiterals
    /\ TopCount = 3
    /\ TopKid(1) # TopKid(2)
    /\ TopKid(2) # TopKid(3)

(***************************************************************************)
(* The text as the interface defines it: hex digits, any case, with white  *)
(* space around them.                                                      *)
(***************************************************************************)
Blank == {" ", "\n", "\t", "\r"}
UpperHex == << "0", "1", "2", "3", "4", "5", "6", "7",
               "8", "9", "A", "B", "C", "D", "E", "F" >>
LowerHex == << "0", "1", "2", "3", "4", "5", "6", "7",
               "8", "9", "a", "b", "c", "d", "e", "f" >>
IsHexChar(c) == \E v \in 1..16 : c = UpperHex[v] \/ c = LowerHex[v]
HexValue(c) == (CHOOSE v \in 1..16 : c = UpperHex[v] \/ c = LowerHex[v]) - 1

\* the text between its first and its last character that is not blank
Core(text) ==
    LET solid == { i \in 1..Len(text) : text[i] \notin Blank }
    IN IF solid = {} THEN <<>>
       ELSE SubSeq(text,
                   CHOOSE i \in solid : \A j \in solid : i <= j,
                   CHOOSE i \in solid : \A j \in solid : i >= j)
IsHexText(text) == \A i \in 1..Len(Core(text)) : IsHexChar(Core(text)[i])

\* C12: a text whose trimmed form holds a character that is no hex digit
\* (white space inside it included) makes the decode fail with the
\* invalid-hex error, wherever the character is and whatever else is wrong.
C12_InvalidHexFails ==
    (pc = "done" /\ ~IsHexText(input)) => result = Err(ErrInvalidHex)

\* the character that is no hex digit follows a complete literal packet
C12_Witness ==
    /\ pc = "done"
    /\ input = << "D", "2", "F", "E", "2", "8", "G" >>
    /\ result = Err(ErrInvalidHex)

\* C13: a text of n hex digits gives exactly 4n bits, and bits 4i..4i+3 are
\* the binary digits of the i-th hex digit, most significant first.
C13_FourBitsPerDigit ==
    (pc = "helper" /\ stack = << Frame >> /\ IsHexText(input))
    => /\ Len(bits) = 4 * Len(Core(input))
       /\ \A i \in 1..Len(Core(input)) :
             8 * bits[4 * i - 3] + 4 * bits[4 * i - 2]
               + 2 * bits[4 * i - 1] + bits[4 * i] = HexValue(Core(input)[i])

\* the text and the bits of tests::test_to_bits
C13_Witness ==
    /\ pc = "helper"
    /\ stack = << Frame >>
    /\ input = << "1", "F", "3", "\n" >>
    /\ bits = << L, L, L, H, H, H, H, H, L, L, H, H >>

\* C14: a text decodes as the same text does with white space around it or
\* with its hex letters in the other case: to the same tree, or with the
\* same error.
C14_SpaceAndCaseIgnored ==
    (pc = "done" /\ variant \in {"padded", "recased"}) => result = previous

\* a text with hex letters that decodes to a tree, with white space on both
\* sides of it
C14_Witness ==
    /\ pc = "done"
    /\ variant = "padded"
    /\ result.kind = "Ok"
    /\ result = previous
    /\ input[1] \in Blank /\ input[Len(input)] \in Blank
    /\ \E i \in 1..Len(input) : input[i] \in {"A", "B", "C", "D", "E", "F"}

(***************************************************************************)
(* Numbers as the interface defines them: naturals of any size.            *)
(***************************************************************************)
DigitAt(n, i) == IF i <= Len(n) THEN n[i] ELSE 0
SameNumber(a, b) ==
    \A i \in 1..(Len(a) + Len(b)) : DigitAt(a, i) = DigitAt(b, i)

\* the children of an operator all evaluate to a value, whatever the build
KidsHaveValues(p) ==
    /\ p.contents.kind = "Operator"
    /\ \A i \in 1..Len(p.contents.subpackets) : \A checks \in BOOLEAN :
          eval(p.contents.subpackets[i], checks).kind = "Ok"
KidValue(p, i) == eval(p.contents.subpackets[i], FALSE).v

\* the sum and the product of the values of the children from the i-th on
RECURSIVE SumOfKids(_, _)
SumOfKids(p, i) ==
    IF i > Len(p.contents.subpackets) THEN <<>>
    ELSE add_digits(digits_of_u64(KidValue(p, i)), SumOfKids(p, i + 1), 0)
RECURSIVE ProductOfKids(_, _)
ProductOfKids(p, i) ==
    IF i > Len(p.contents.subpackets) THEN << 1 >>
    ELSE mul_digits(digits_of_u64(KidValue(p, i)), ProductOfKids(p, i + 1))

\* C15: eval of a Sum is the arithmetic sum of the values of its children
\* and eval of a Product is their arithmetic product, also when the exact
\* sum or product exceeds 2^64 - 1.
C15_SumAndProductExact ==
    ( /\ report # None
      /\ KidsHaveValues(result.v)
      /\ result.v.contents.ty \in {"Sum", "Product"} )
    => /\ report.eval.kind = "Ok"
       /\ SameNumber(digits_of_u64(report.eval.v),
                     IF result.v.contents.ty = "Sum"
                     THEN SumOfKids(result.v, 1)
                     ELSE ProductOfKids(result.v, 1))

\* the order of two 64-bit values, read as three numbers of at most seven
\* hex digits each
Chunk(v, from, to) ==
    LET RECURSIVE Upto(_)
        Upto(i) == IF i < from THEN 0 ELSE 16 * Upto(i - 1) + v[i]
    IN Upto(to)
Above(a, b) ==
    \/ Chunk(a, 1, 2) > Chunk(b, 1, 2)
    \/ /\ Chunk(a, 1, 2) = Chunk(b, 1, 2)
       /\ \/ Chunk(a, 3, 9) > Chunk(b, 3, 9)
          \/ /\ Chunk(a, 3, 9) = Chunk(b, 3, 9)
             /\ Chunk(a, 10, 16) > Chunk(b, 10, 16)
Flag(b) == [i \in 1..16 |-> IF i = 16 /\ b THEN 1 ELSE 0]

\* C16: eval of GreaterThan, LessThan and Equal is 1 when the value of the
\* first child is greater than, less than, equal to the value of the second
\* child, and 0 otherwise; the first child is the one first in the stream.
C16_ComparisonsInStreamOrder ==
    /\ ( /\ report # None
         /\ KidsHaveValues(result.v)
         /\ result.v.contents.ty \in {"GreaterThan", "LessThan", "Equal"} )
       => LET lhs == KidValue(result.v, 1)
              rhs == KidValue(result.v, 2)
          IN report.eval =
               Ok(Flag(CASE result.v.contents.ty = "GreaterThan" ->
                              Above(lhs, rhs)
                         [] result.v.contents.ty = "LessThan" ->
                              Above(rhs, lhs)
                         [] OTHER -> ~Above(lhs, rhs) /\ ~Above(rhs, lhs)))
    /\ ( /\ report # None
         /\ TopKidsAreSmallLiterals
         /\ TopTypeId \in {5, 6, 7} )
       => LET first == FieldAt(bits, KidAt(1) + 7, 4)
              second == FieldAt(bits, KidAt(2) + 7, 4)
          IN report.eval =
               Ok(Flag(CASE TopTypeId = 5 -> first > second
                         [] TopTypeId = 6 -> first < second
                         [] OTHER -> first = second))

\* 16 > 15: a GreaterThan whose operands differ in their second digit
C16_Witness ==
    /\ report # None
    /\ KidsHaveValues(result.v)
    /\ result.v.contents.ty = "GreaterThan"
    /\ KidValue(result.v, 1)[15] = 1 /\ KidValue(result.v, 1)[16] = 0
    /\ KidValue(result.v, 2)[15] = 0 /\ KidValue(result.v, 2)[16] = 15
    /\ report.eval = Ok(Flag(TRUE))

\* C17: eval of a Literal is its stored value; eval of a Min is the least
\* and eval of a Max the greatest of the values of its children.
C17_LiteralMinMax ==
    /\ (report # None /\ result.v.contents.kind = "Literal")
       => report.eval = Ok(result.v.contents.value)
    /\ ( /\ report # None
         /\ KidsHaveValues(result.v)
         /\ result.v.contents.ty \in {"Min", "Max"} )
       => LET n == Len(result.v.contents.subpackets)
          IN /\ report.eval.kind = "Ok"
             /\ \E i \in 1..n : report.eval.v = KidValue(result.v, i)
             /\ \A i \in 1..n :
                   IF result.v.contents.ty = "Min"
                   THEN ~Above(report.eval.v, KidValue(result.v, i))
                   ELSE ~Above(KidValue(result.v, i), report.eval.v)

\* a Min of three children whose least value is that of the second child
C17_Witness ==
    /\ report # None
    /\ KidsHaveValues(result.v)
    /\ result.v.contents.ty = "Min"
    /\ Len(result.v.contents.subpackets) = 3
    /\ Above(KidValue(result.v, 1), KidValue(result.v, 2))
    /\ Above(KidValue(result.v, 3), KidValue(result.v, 2))
    /\ report.eval = Ok(KidValue(result.v, 2))

\* the version fields of all the packets of a tree, the packet's own first
RECURSIVE Versions(_)
RECURSIVE VersionsOfAll(_)
Versions(p) ==
    << p.version >>
    \o (IF p.contents.kind = "Literal" THEN <<>>
        ELSE VersionsOfAll(p.contents.subpackets))
VersionsOfAll(ps) ==
    IF ps = <<>> THEN <<>> ELSE Versions(Head(ps)) \o VersionsOfAll(Tail(ps))
RECURSIVE Total(_)
Total(ns) == IF ns = <<>> THEN 0 ELSE Head(ns) + Total(Tail(ns))

\* C18: version_sum of a packet is its own version plus the sum of
\* version_sum over its children, which is the sum of the version fields of
\* all the packets of the tree; for a literal it is the literal's version.
C18_VersionSum ==
    report # None
    => /\ report.version_sum = Total(Versions(result.v))
       /\ result.v.contents.kind = "Literal"
          => report.version_sum = result.v.version
       /\ result.v.contents.kind = "Operator"
          => report.version_sum =
               result.v.version
               + Total([i \in 1..Len(result.v.contents.subpackets) |->
                          version_sum(result.v.contents.subpackets[i])])
       /\ TopKidsAreSmallLiterals
          => report.version_sum =
               FieldAt(bits, 0, 3)
               + Total([j \in 1..TopCount |-> FieldAt(bits, KidAt(j), 3)])

\* an operator (version 3) over an operator (version 2) with two literals
\* (versions 1 and 2) and over a literal (version 7)
C18_Witness ==
    /\ report # None
    /\ result.v.contents.kind = "Operator"
    /\ Len(result.v.contents.subpackets) = 2
    /\ result.v.contents.subpackets[1].contents.kind = "Operator"
    /\ Len(result.v.contents.subpackets[1].contents.subpackets) = 2
    /\ Versions(result.v) = << 3, 2, 1, 2, 7 >>
    /\ report.version_sum = 15

\* C19: for every tree a decode returns, eval and version_sum do not fail
\* on an empty sequence of children (the unwrap of Min and Max) or on a
\* missing operand (the children 0 and 1 of a comparison).
C19_NoMissingChildPanic ==
    /\ (pc = "done" /\ result.kind = "Ok")
       => \A checks \in BOOLEAN :
             eval(result.v, checks) \notin
               { Panic("unwrap on None"), Panic("index out of bounds") }
    /\ report # None
       => /\ report.version_sum \in Nat
          /\ report.eval.kind = "Panic" => report.eval = Panic("overflow")

\* evaluated: a Max of one child, or a Sum over a comparison of two
C19_Witness ==
    /\ report # None
    /\ report.eval.kind = "Ok"
    /\ result.v.contents.kind = "Operator"
    /\ \/ /\ result.v.contents.ty = "Max"
          /\ Len(result.v.contents.subpackets) = 1
       \/ /\ result.v.contents.ty = "Sum"
          /\ result.v.contents.subpackets[1].contents.kind = "Operator"
          /\ result.v.contents.subpackets[1].contents.ty = "LessThan"

\* C20: the two framings of an operator, by the length in bits of its
\* children and by their number, with the same version, type id and encoded
\* children, decode to trees of the same eval and the same version_sum.
C20_FramingEquivalence ==
    (pc = "done" /\ variant = "reframed")
    => /\ result.kind = "Ok"
       /\ version_sum(result.v) = version_sum(previous.v)
       /\ \A checks \in BOOLEAN :
             eval(result.v, checks) = eval(previous.v, checks)

\* an operator over an operator and a literal, first framed by length and
\* then by count, evaluated after the second decode
C20_Witness ==
    /\ pc = "done"
    /\ variant = "reframed"
    /\ report # None
    /\ bits[7] = H
    /\ result.kind = "Ok"
    /\ Len(result.v.contents.subpackets) = 2
    /\ result.v.contents.subpackets[1].contents.kind = "Operator"
    /\ report.version_sum = version_sum(previous.v)

Errors == { ErrInvalidHex, ErrLiteral, ErrLengthType, ErrBinary, ErrEmpty }

\* C21: a decode returns a complete tree or one error: an error raised in a
\* packet at any depth is handed from activation to activation unchanged,
\* each activation ending at once without adding to what it had built, and
\* is what Packet::parse returns; no tree is returned with it.
C21_DecodeIsAtomic ==
    [][ /\ (pc = "helper" /\ ret.kind = "Err")
           => /\ ret' = ret
              /\ stack # <<>> => (stack' = Callers /\ pc' = "helper")
              /\ stack = <<>> => (pc' = "done" /\ result' = ret)
        /\ (pc # "done" /\ pc' = "done")
           => \/ \E e \in Errors : result' = Err(e)
              \/ /\ result'.kind = "Ok"
                 /\ ret.kind = "Ok"
                 /\ result'.v = ret.v.packet
                 /\ WellFormed(result'.v)
                 /\ TopFramedByCount
                    => Len(result'.v.contents.subpackets) = TopCount
      ]_vars

\* an error on its way out of a packet two levels down, past an operator
\* that has already built a child
C21_Witness ==
    /\ pc = "helper"
    /\ ret.kind = "Err"
    /\ Len(stack) = 2
    /\ stack[1].packets # <<>> \/ stack[2].packets # <<>>

\* the kind of packet of each type id, 0 first
KindOfTypeId ==
    << "Sum", "Product", "Min", "Max", "Literal",
       "GreaterThan", "LessThan", "Equal" >>
KindOfContents(c) == IF c.kind = "Literal" THEN "Literal" ELSE c.ty

\* C22: the type ids 0, 1, 2, 3, 5, 6, 7 give Sum, Product, Min, Max,
\* GreaterThan, LessThan, Equal and the type id 4 gives a Literal; the
\* default branch of from_type_id is not reached in any decode.
C22_TypeIdKinds ==
    /\ \A d \in 1..Len(stack) :
          /\ stack[d].type_id \in 0..7
          /\ stack[d].at = "validate"
             => /\ stack[d].type_id # 4
                /\ from_type_id(stack[d].type_id) # "panic"
          /\ stack[d].at = "literal" => stack[d].type_id = 4
          /\ stack[d].at = "return"
             => KindOfContents(stack[d].contents)
                  = KindOfTypeId[stack[d].type_id + 1]
    /\ (Decoded /\ result.kind = "Ok" /\ Len(bits) >= 6)
       => KindOfContents(result.v.contents) = KindOfTypeId[TopTypeId + 1]

\* an Equal at the top of a decoded tree
C22_Witness ==
    /\ Decoded /\ result.kind = "Ok"
    /\ TopTypeId = 7
    /\ result.v.contents.kind = "Operator"
    /\ result.v.contents.ty = "Equal"

\* the texts of tests::test_eval with the values they evaluate to
EvalVectors ==
    << << << "C", "2", "0", "0", "B", "4", "0", "A", "8", "2" >>, 3 >>,
       << << "0", "4", "0", "0", "5", "A", "C", "3", "3", "8", "9", "0" >>,
          54 >>,
       << << "8", "8", "0", "0", "8", "6", "C", "3", "E", "8", "8", "1",
             "1", "2" >>, 7 >>,
       << << "C", "E", "0", "0", "C", "4", "3", "D", "8", "8", "1", "1",
             "2", "0" >>, 9 >>,
       << << "D", "8", "0", "0", "5", "A", "C", "2", "A", "8", "F", "0" >>,
          1 >>,
       << << "F", "6", "0", "0", "B", "C", "2", "D", "8", "F" >>, 0 >>,
       << << "9", "C", "0", "0", "5", "A", "C", "2", "F", "8", "F", "0" >>,
          0 >>,
       << << "9", "C", "0", "1", "4", "1", "0", "8", "0", "2", "5", "0",
             "3", "2", "0", "F", "1", "8", "0", "2", "1", "0", "4", "A",
             "0", "8" >>, 1 >> >>
SmallValue(n) ==
    [i \in 1..16 |->
        IF i = 16 THEN n % 16 ELSE IF i = 15 THEN n \div 16 ELSE 0]

\* C23: the reference texts decode to a tree and evaluate to the stated
\* values: 3, 54, 7, 9, 1, 0, 0 and 1.
C23_EvalVectors ==
    pc = "done"
    => \A k \in 1..Len(EvalVectors) :
          Core(input) = EvalVectors[k][1]
          => /\ result.kind = "Ok"
             /\ \A checks \in BOOLEAN :
                   eval(result.v, checks) = Ok(SmallValue(EvalVectors[k][2]))
             /\ report # None
                => report.eval = Ok(SmallValue(EvalVectors[k][2]))

\* 04005AC33890 evaluated: the product of 6 and 9
C23_Witness ==
    /\ report # None
    /\ input = EvalVectors[2][1]
    /\ result.v.contents.ty = "Product"
    /\ report.eval = Ok(SmallValue(54))

\* the reference texts with their sums of versions
VersionVectors ==
    << << << "8", "A", "0", "0", "4", "A", "8", "0", "1", "A", "8", "0",
             "0", "2", "F", "4", "7", "8" >>, 16 >>,
       << << "6", "2", "0", "0", "8", "0", "0", "0", "1", "6", "1", "1",
             "5", "6", "2", "C", "8", "8", "0", "2", "1", "1", "8", "E",
             "3", "4" >>, 12 >>,
       << << "C", "0", "0", "1", "5", "0", "0", "0", "0", "1", "6", "1",
             "1", "5", "A", "2", "E", "0", "8", "0", "2", "F", "1", "8",
             "2", "3", "4", "0" >>, 23 >>,
       << << "A", "0", "0", "1", "6", "C", "8", "8", "0", "1", "6", "2",
             "0", "1", "7", "C", "3", "6", "8", "6", "B", "1", "8", "A",
             "3", "D", "4", "7", "8", "0" >>, 31 >> >>

\* EXAMPLE_BITS of the tests
EXAMPLE_BITS ==
    << 1, 1, 1, 0, 1, 1, 1, 0, 0, 0, 0, 0, 0, 0, 0, 0, 1, 1, 0, 1, 0, 1, 0,
       0, 0, 0, 0, 0, 1, 1, 0, 0, 1, 0, 0, 0, 0, 0, 1, 0, 0, 0, 1, 1, 0, 0,
       0, 0, 0, 1, 1, 0, 0, 0, 0, 0 >>

\* C24: the reference texts decode to a tree with the stated sums of
\* versions, 16, 12, 23 and 31, and the bit string of the unit test, an
\* operator of version 7 framed by count over literals of versions 2, 4
\* and 1, gives 14.
C24_VersionSumVectors ==
    pc = "done"
    => /\ \A k \in 1..Len(VersionVectors) :
             Core(input) = VersionVectors[k][1]
             => /\ result.kind = "Ok"
                /\ version_sum(result.v) = VersionVectors[k][2]
                /\ report # None
                   => report.version_sum = VersionVectors[k][2]
       /\ bits = EXAMPLE_BITS
          => /\ result.kind = "Ok"
             /\ bits[7] = H
             /\ Versions(result.v) = << 7, 2, 4, 1 >>
             /\ version_sum(result.v) = 7 + 2 + 4 + 1
             /\ report # None => report.version_sum = 14

\* A0016C880162017C3686B18A3D4780 decoded and its versions summed
C24_Witness ==
    /\ report # None
    /\ input = VersionVectors[4][1]
    /\ report.version_sum = 31

\* the number of groups of the literal whose groups start after bit `pos`
RECURSIVE GroupsFrom(_, _)
GroupsFrom(bs, pos) ==
    IF pos + 1 > Len(bs) THEN 0
    ELSE IF bs[pos + 1] = 0 THEN 1
    ELSE 1 + GroupsFrom(bs, pos + 5)

\* the length in bits of the encoding of the packet p that starts after bit
\* `pos`, and of the packets ps that start there one after the other
RECURSIVE EncodedLength(_, _, _)
RECURSIVE EncodedLengthOfAll(_, _, _)
EncodedLength(bs, pos, p) ==
    IF p.contents.kind = "Literal" THEN 6 + 5 * GroupsFrom(bs, pos + 6)
    ELSE LET header == IF pos + 7 <= Len(bs) /\ bs[pos + 7] = H
                       THEN 18 ELSE 22
         IN header + EncodedLengthOfAll(bs, pos + header,
                                        p.contents.subpackets)
EncodedLengthOfAll(bs, pos, ps) ==
    IF ps = <<>> THEN 0
    ELSE LET first == EncodedLength(bs, pos, Head(ps))
         IN first + EncodedLengthOfAll(bs, pos + first, Tail(ps))

\* C25: the bits_consumed a successful parse_helper returns is the encoded
\* length of the packet it parsed: 6 + 5k for a literal of k groups, 22
\* (framed by length) or 18 (framed by count) plus the bits_consumed of the
\* children for an operator.
C25_ConsumedIsEncodedLength ==
    [][ InHelper("return")
        => ret'.v.parsed
             = EncodedLength(bits, Top.start_idx, ret'.v.packet) ]_vars

\* the activation that called the innermost one
Caller == stack[Len(stack) - 1]
HeaderLength(f) == IF f.length_type_id = L THEN 22 ELSE 18

\* C26: during a decode the cursor only moves forward, and the children of
\* an operator lie one after the other in the stream: the first starts at
\* the bit after the operator's length field, each later one at the bit
\* where the one before it ended; no bit is skipped or read twice.
C26_ChildrenAreContiguous ==
    [][ /\ pc' # "parse"
           => /\ iter'.processed >= iter.processed
              /\ iter'.count >= iter.count
        \* between the end of a child and the start of the next no bit is read
        /\ (pc = "helper" /\ (ret # None \/ (stack # <<>> /\ Top.at \in
              {"total_loop", "count_loop", "validate", "return"})))
           => iter' = iter
        \* a child ends where the cursor is when it returns
        /\ InHelper("return")
           => Top.start_idx + ret'.v.parsed = iter.processed
        \* and starts where the cursor is then
        /\ (InHelper("version") /\ Len(stack) >= 2)
           => LET start == stack'[Len(stack)].start_idx
              IN /\ start = iter.processed
                 /\ Caller.packets = <<>>
                    => start = Caller.start_idx + HeaderLength(Caller)
                 /\ Caller.length_type_id = L
                    => start = Caller.start_idx + HeaderLength(Caller)
                                 + Caller.parsed_bits
      ]_vars

\* the number of activations of parse_helper inside the outermost one
RecursionDepth == IF stack = <<>> THEN 0 ELSE Len(stack) - 1

\* C27: every decode ends, with a tree or with an error; the loops of
\* parse_helper end (the count loop after at most num_subpackets turns, the
\* others by reaching the end of the stream at the latest) and the depth of
\* the recursion is at most the number of bits of the stream.
C27_DecodeTerminates ==
    /\ [](/\ RecursionDepth <= Len(bits)
          /\ iter.count <= Len(bits)
          /\ \A d \in 1..Len(stack) : stack[d].i <= stack[d].num_subpackets)
    /\ (pc # "done") ~> (pc = "done" /\ result.kind \in {"Ok", "Err"})

\* a decode that ended with an operator over an operator of two children
C27_Witness ==
    /\ pc = "done"
    /\ result.kind = "Ok"
    /\ result.v.contents.kind = "Operator"
    /\ \E c \in 1..Len(result.v.contents.subpackets) :
          /\ result.v.contents.subpackets[c].contents.kind = "Operator"
          /\ Len(result.v.contents.subpackets[c].contents.subpackets) = 2

\* C28: a literal of more than 16 groups whose integer is 2^64 or more does
\* not make the decode fail: the value stored is the integer modulo 2^64,
\* which its last 16 nibbles spell, and all its groups are consumed.
C28_LongLiteralWraps ==
    \A k \in (U64Digits + 1)..(MaxGroups + 1) :
        (Decoded /\ TopLiteral(k) /\ ~TopLiteralFits(k))
        => /\ result = Ok(Packet(FieldAt(bits, 0, 3),
                                 Literal(TopLiteralValue(k))))
           /\ iter.count = GroupAt(k + 1)
           /\ iter.processed = GroupAt(k + 1)

\* a literal of 17 groups whose first nibble is not 0, decoded
C28_Witness ==
    /\ Decoded
    /\ TopLiteral(U64Digits + 1)
    /\ TopNibble(1) # 0
    /\ result.kind = "Ok"
    /\ result.v.contents.value[1] = TopNibble(2)

\* C29: the arity and emptiness of an operator are checked only after all
\* the children it declares have been parsed; when a child fails, the decode
\* reports the child's error, also when the number of children declared
\* already breaks the rule of two for GreaterThan, LessThan and Equal.
C29_ValidationAfterChildren ==
    [][ /\ InHelper("validate")
           => IF Top.length_type_id = H
              THEN /\ Top.i = Top.num_subpackets
                   /\ Len(Top.packets) = Top.num_subpackets
              ELSE Top.parsed_bits >= Top.total_length
        /\ ( /\ pc = "helper" /\ stack # <<>>
             /\ Top.at \in {"count_call", "total_call"}
             /\ ret.kind = "Err" )
           => /\ ret' = ret
              /\ stack' = Callers
      ]_vars

\* a comparison that declares three children and whose third child fails:
\* the decode reports the end of input, not the arity
C29_Witness ==
    /\ pc = "done"
    /\ TopFramedByCount
    /\ TopTypeId \in {5, 6, 7}
    /\ TopCount = 3
    /\ iter.count > KidAt(3)
    /\ EndOfInput(result)

\* C30: the decode of the empty text, or of a text of white space only,
\* returns an end-of-input error: it does not panic and returns no Packet.
C30_EmptyTextFails ==
    (pc = "done" /\ \A i \in 1..Len(input) : input[i] \in Blank)
    => EndOfInput(result)

\* the empty text, decoded a second time with white space around it
C30_Witness ==
    /\ pc = "done"
    /\ variant = "padded"
    /\ Len(input) = 4
    /\ \A i \in 1..Len(input) : input[i] \in Blank
    /\ bits = <<>>
    /\ previous = Err(ErrLengthType)
    /\ result = Err(ErrLengthType)

====
